---- MODULE Spec2Model ----
(***************************************************************************)
(* Highlight offset-reconciliation and lifecycle engine of llmd.           *)
(*                                                                         *)
(* Text (file contents, highlighted text, paths) is a sequence of          *)
(* one-character strings; offsets are 0-based as in the source.            *)
(***************************************************************************)
EXTENDS Integers, Sequences, FiniteSets, TLC

VARIABLES
    files,       \* the file system (documents and the backup cache): path -> content
    resources,   \* table resources: id -> row
    highlights,  \* table highlights: id -> row
    events,      \* table events: sequence of rows, in insertion order
    pathMap,     \* the event service's in-memory path -> resource id map
    now,         \* Date.now()
    nextId,      \* source of fresh ids (randomUUID)
    resp,        \* the last request handled and the response it got
    call,        \* the last direct call of a library function and what it returned
    inflight,    \* create requests suspended at an await, in arrival order
    eventQueue,  \* the event service's queue of events held while it scans
    isScanning,  \* the event service's flag: the resource scan has not ended
    watchedFiles,   \* watcher.ts watchedFiles: relative path -> its subscribers
    debounceTimers, \* watcher.ts debounceTimers: the paths with a pending timer
    wsFile       \* the open WebSocket connections: socket -> its ws.file

sysVars == <<files, resources, highlights, events, pathMap, now, nextId, resp>>
auxVars == <<inflight, eventQueue, isScanning, watchedFiles, debounceTimers, wsFile>>
vars == <<files, resources, highlights, events, pathMap, now, nextId, resp, call, auxVars>>

----------------------------------------------------------------------------
(* Bounds of the model *)

MaxLen == 3        \* longest text drawn for the locator specifications
MaxTime == 1       \* the clock stops advancing here
MaxIds == 4        \* ids handed out by randomUUID
MaxEvents == 2     \* events recorded, queued ones included
MaxInflight == 2   \* create requests suspended at the same time

----------------------------------------------------------------------------
(* Text *)

Chars == {"a", "b", " "}
Whitespace == {" "}

Null == <<>>       \* SQL NULL / JS null, undefined and "" (all falsy)

RECURSIVE StrsUpTo(_)
StrsUpTo(n) ==
    IF n = 0 THEN {<<>>}
    ELSE LET shorter == StrsUpTo(n - 1)
         IN  shorter \cup {Append(s, c) : s \in {t \in shorter : Len(t) = n - 1}, c \in Chars}

\* String.prototype.slice(start, end): a negative index counts from the end, and
\* both indexes are clamped to 0..length
Slice(s, start, end) ==
    LET Clamp(i) == IF i < 0 THEN (IF Len(s) + i < 0 THEN 0 ELSE Len(s) + i)
                    ELSE IF i > Len(s) THEN Len(s) ELSE i
        from == Clamp(start)
        to == Clamp(end)
    IN  IF from >= to THEN <<>> ELSE SubSeq(s, from + 1, to)

\* does t occur in s at 0-based position i
MatchAt(s, t, i) ==
    /\ i >= 0
    /\ i + Len(t) <= Len(s)
    /\ \A k \in 1..Len(t) : s[i + k] = t[k]

\* String.prototype.indexOf(t, from): first position >= from, or -1
IndexOf(s, t, from) ==
    LET hits == {i \in from..Len(s) : MatchAt(s, t, i)}
    IN  IF hits = {} THEN -1 ELSE CHOOSE i \in hits : \A j \in hits : i <= j

\* text.replace(/\s+/g, " "): each run of whitespace becomes one space
RECURSIVE CollapseWs(_)
CollapseWs(s) ==
    IF s = <<>> THEN <<>>
    ELSE IF Head(s) \in Whitespace
         THEN IF Len(s) > 1 /\ s[2] \in Whitespace
              THEN CollapseWs(Tail(s))
              ELSE <<" ">> \o CollapseWs(Tail(s))
         ELSE <<Head(s)>> \o CollapseWs(Tail(s))

\* String.prototype.trim()
Trim(s) ==
    LET keep == {i \in 1..Len(s) : s[i] \notin Whitespace}
    IN  IF keep = {} THEN <<>>
        ELSE LET lo == CHOOSE i \in keep : \A j \in keep : i <= j
                 hi == CHOOSE i \in keep : \A j \in keep : j <= i
             IN  SubSeq(s, lo, hi)

normalizeWhitespace(text) == Trim(CollapseWs(text))

\* computeFileHash: SHA-256, modelled as an injective tag of the content
computeFileHash(content) == <<"sha256", content>>

----------------------------------------------------------------------------
(* Occurrence locator *)

\* the while loop of findAllOccurrences over one pair of strings
RECURSIVE ScanOccurrences(_, _, _, _)
ScanOccurrences(content, searchText, searchStart, occurrences) ==
    IF searchStart < Len(content)
    THEN LET found == IndexOf(content, searchText, searchStart)
         IN  IF found = -1 THEN occurrences
             ELSE ScanOccurrences(content, searchText, found + 1, Append(occurrences, found))
    ELSE occurrences

findAllOccurrences(content, searchText) ==
    LET exact == ScanOccurrences(content, searchText, 0, <<>>)
    IN  IF Len(exact) > 0 THEN exact
        ELSE ScanOccurrences(normalizeWhitespace(content), normalizeWhitespace(searchText), 0, <<>>)

NotFound == [found |-> FALSE, startOffset |-> 0, endOffset |-> 0]

\* findTextOffset with -1, indexOf's "none", for an index the array does not hold
findTextOffsetMinusOne(content, searchText, occurrenceIndex) ==
    LET occurrences == findAllOccurrences(content, searchText)
    IN  IF Len(occurrences) = 0 THEN NotFound
        ELSE IF occurrenceIndex >= Len(occurrences) THEN NotFound
        ELSE LET startOffset == IF occurrenceIndex >= 0
                                THEN occurrences[occurrenceIndex + 1]
                                ELSE 0 - 1
             IN  [found |-> TRUE, startOffset |-> startOffset,
                  endOffset |-> startOffset + Len(searchText)]

\* occurrences[occurrenceIndex] ?? 0 : a JS array read outside 0..length-1 is undefined
findTextOffset(content, searchText, occurrenceIndex) ==
    LET occurrences == findAllOccurrences(content, searchText)
    IN  IF Len(occurrences) = 0 THEN NotFound
        ELSE IF occurrenceIndex >= Len(occurrences) THEN NotFound
        ELSE LET startOffset == IF occurrenceIndex >= 0
                                THEN occurrences[occurrenceIndex + 1]
                                ELSE 0
             IN  [found |-> TRUE, startOffset |-> startOffset,
                  endOffset |-> startOffset + Len(searchText)]

\* validateHighlight as docs/highlights.md describes it: text that appears more than
\* once in changed content is not relocated
validateHighlightAmbiguous(content, contentHash, highlightedText) ==
    LET currentHash == computeFileHash(content)
        newOffsets == findTextOffset(content, highlightedText, 0)
    IN  IF currentHash = contentHash
        THEN [isValid |-> TRUE, moved |-> FALSE, newStartOffset |-> 0,
              newEndOffset |-> 0, newContentHash |-> Null]
        ELSE IF ~newOffsets.found \/ Len(findAllOccurrences(content, highlightedText)) > 1
        THEN [isValid |-> FALSE, moved |-> FALSE, newStartOffset |-> 0,
              newEndOffset |-> 0, newContentHash |-> Null]
        ELSE [isValid |-> TRUE, moved |-> TRUE, newStartOffset |-> newOffsets.startOffset,
              newEndOffset |-> newOffsets.endOffset, newContentHash |-> currentHash]

\* validateHighlight without the hash comparison: the text is searched every time
validateHighlightAlwaysSearch(content, contentHash, highlightedText) ==
    LET currentHash == computeFileHash(content)
        newOffsets == findTextOffset(content, highlightedText, 0)
    IN  IF ~newOffsets.found
        THEN [isValid |-> FALSE, moved |-> FALSE, newStartOffset |-> 0,
              newEndOffset |-> 0, newContentHash |-> Null]
        ELSE [isValid |-> TRUE, moved |-> TRUE, newStartOffset |-> newOffsets.startOffset,
              newEndOffset |-> newOffsets.endOffset, newContentHash |-> currentHash]

\* validateHighlight: {isValid, newStartOffset?, newEndOffset?, newContentHash?}
validateHighlight(content, contentHash, highlightedText) ==
    LET currentHash == computeFileHash(content)
        newOffsets == findTextOffset(content, highlightedText, 0)
    IN  IF currentHash = contentHash
        THEN [isValid |-> TRUE, moved |-> FALSE, newStartOffset |-> 0,
              newEndOffset |-> 0, newContentHash |-> Null]
        ELSE IF ~newOffsets.found
        THEN [isValid |-> FALSE, moved |-> FALSE, newStartOffset |-> 0,
              newEndOffset |-> 0, newContentHash |-> Null]
        ELSE [isValid |-> TRUE, moved |-> TRUE, newStartOffset |-> newOffsets.startOffset,
              newEndOffset |-> newOffsets.endOffset, newContentHash |-> currentHash]

----------------------------------------------------------------------------
(* Paths and file names *)

RootDir == <<"/", "d">>                     \* config.directory
CacheDir == <<"/", "c">>                    \* resolveCacheDirectory()
MdExt == <<".", "m", "d">>
DocA == RootDir \o <<"/", "a">> \o MdExt
DocPaths == {DocA}

LastSlash(p) ==
    LET at == {i \in 1..Len(p) : p[i] = "/"}
    IN  IF at = {} THEN 0 ELSE CHOOSE i \in at : \A j \in at : j <= i

basename(p) == SubSeq(p, LastSlash(p) + 1, Len(p))
dirname(p) == SubSeq(p, 1, LastSlash(p) - 1)
join(dir, name) == dir \o <<"/">> \o name

EndsWith(s, suffix) == Len(s) >= Len(suffix) /\ MatchAt(s, suffix, Len(s) - Len(suffix))

Digit(n) == <<"0", "1", "2", "3", "4", "5", "6", "7", "8", "9">>[n + 1]

\* a number in decimal, as template literals and toISOString print it
RECURSIVE Decimal(_)
Decimal(n) == IF n < 10 THEN <<Digit(n)>> ELSE Decimal(n \div 10) \o <<Digit(n % 10)>>

\* new Date(ts).toISOString().replace(/[:.]/g, "-"): within the clock's range only
\* the milliseconds differ, so the date and time of day are written "T"
IsoStamp(ts) == <<"T">> \o Decimal(ts) \o <<"Z">>

\* backupFile's target: join(cacheDir, `${resourceId}_${timestamp}_${fileName}`)
BackupPathOf(filePath, resourceId, timestamp) ==
    join(CacheDir, Decimal(resourceId) \o <<"_">> \o Decimal(timestamp) \o <<"_">> \o basename(filePath))

\* restoreFile ignoring useTimestamp
RestoreTargetInPlace(originalPath, useTimestamp, timestamp) == originalPath

\* restoreFile's target path
RestoreTarget(originalPath, useTimestamp, timestamp) ==
    IF useTimestamp
    THEN LET fileName == basename(originalPath)
             nameWithoutExt == IF EndsWith(fileName, MdExt)
                               THEN SubSeq(fileName, 1, Len(fileName) - Len(MdExt))
                               ELSE fileName
         IN  join(dirname(originalPath), nameWithoutExt \o <<"_">> \o IsoStamp(timestamp) \o MdExt)
    ELSE originalPath

----------------------------------------------------------------------------
(* Inputs *)

Docs == { <<"a", "b">>, <<"a">>, <<"b", "a", "b">>, <<"a", " ", " ", "b">> }
Texts == { <<"b">>, <<"a", " ", "b">>, <<"a", " ", " ", " ", "b">>, <<>> }
Indexes == {-1, 0, 1}
DayMs == 24 * 60 * 60 * 1000

----------------------------------------------------------------------------
(* Tables *)

ResourceRow(path, type, createdAt) ==
    [path |-> path, type |-> type, created_at |-> createdAt,
     content_hash |-> Null, backup_path |-> Null]

\* getResourceByPath: the id of the row with this path, 0 when there is none
getResourceByPath(path) ==
    LET ids == {r \in DOMAIN resources : resources[r].path = path}
    IN  IF ids = {} THEN 0 ELSE CHOOSE r \in ids : TRUE

\* the rows of one resource as getHighlightsByResource maps them
HighlightView(tbl, h) ==
    [id |-> h, startOffset |-> tbl[h].start_offset, endOffset |-> tbl[h].end_offset,
     highlightedText |-> tbl[h].highlighted_text, contentHash |-> tbl[h].content_hash,
     isStale |-> tbl[h].is_stale, createdAt |-> tbl[h].created_at,
     updatedAt |-> tbl[h].updated_at]

\* getHighlightsByResource without ORDER BY: the rows come in insertion order
getHighlightsByRowid(tbl, resourceId) ==
    LET ids == {h \in DOMAIN tbl : tbl[h].resource_id = resourceId}
        n == Cardinality(ids)
        orders == {o \in [1..n -> ids] : \A i, j \in 1..n : i < j => o[i] < o[j]}
    IN  {[i \in 1..n |-> HighlightView(tbl, o[i])] : o \in orders}

\* getHighlightsByResource: ORDER BY start_offset ASC; rows with equal offsets
\* come in an order SQL leaves open
getHighlightsByResource(tbl, resourceId) ==
    LET ids == {h \in DOMAIN tbl : tbl[h].resource_id = resourceId}
        n == Cardinality(ids)
        orders == {o \in [1..n -> ids] :
                     /\ \A i, j \in 1..n : i # j => o[i] # o[j]
                     /\ \A i, j \in 1..n : i < j => tbl[o[i]].start_offset <= tbl[o[j]].start_offset}
    IN  {[i \in 1..n |-> HighlightView(tbl, o[i])] : o \in orders}

\* createHighlight: INSERT with is_stale 0; the new id is nextId
createHighlight(tbl, id, resourceId, startOffset, endOffset, highlightedText, contentHash) ==
    tbl @@ (id :> [resource_id |-> resourceId, start_offset |-> startOffset,
                   end_offset |-> endOffset, highlighted_text |-> highlightedText,
                   content_hash |-> contentHash, is_stale |-> FALSE,
                   created_at |-> now, updated_at |-> now])

markHighlightStale(tbl, id) ==
    [tbl EXCEPT ![id].is_stale = TRUE, ![id].updated_at = now]

updateHighlight(tbl, id, startOffset, endOffset, contentHash) ==
    [tbl EXCEPT ![id].start_offset = startOffset, ![id].end_offset = endOffset,
                ![id].content_hash = contentHash, ![id].is_stale = FALSE,
                ![id].updated_at = now]

deleteHighlight(tbl, id) == [h \in DOMAIN tbl \ {id} |-> tbl[h]]

\* a list read that runs no cleanup
keepInvalidHighlights(tbl, resourceId, fileContent) == tbl

\* deleteInvalidHighlights with its test inverted: the rows reported valid are deleted
deleteValidHighlights(tbl, resourceId, fileContent) ==
    LET valid == {h \in DOMAIN tbl :
                    /\ tbl[h].resource_id = resourceId
                    /\ validateHighlight(fileContent, tbl[h].content_hash,
                                         tbl[h].highlighted_text).isValid}
    IN  [h \in DOMAIN tbl \ valid |-> tbl[h]]

\* deleteInvalidHighlights: delete every row validateHighlight reports invalid
deleteInvalidHighlights(tbl, resourceId, fileContent) ==
    LET invalid == {h \in DOMAIN tbl :
                      /\ tbl[h].resource_id = resourceId
                      /\ ~validateHighlight(fileContent, tbl[h].content_hash,
                                            tbl[h].highlighted_text).isValid}
    IN  [h \in DOMAIN tbl \ invalid |-> tbl[h]]

updateResourceBackup(tbl, resourceId, contentHash, backupPath) ==
    [tbl EXCEPT ![resourceId].content_hash = contentHash, ![resourceId].backup_path = backupPath]

\* the schema without ON DELETE CASCADE (or with foreign keys off)
NoCascadeDelete(tbl, gone) == tbl

\* FOREIGN KEY (resource_id) REFERENCES resources(id) ON DELETE CASCADE,
\* with PRAGMA foreign_keys = ON: the highlights left after resources `gone` are deleted
CascadeDelete(tbl, gone) == [h \in {x \in DOMAIN tbl : tbl[x].resource_id \notin gone} |-> tbl[h]]

----------------------------------------------------------------------------
(* Responses *)

NoResp ==
    [op |-> "none", status |-> 0, path |-> Null, id |-> 0, isStale |-> FALSE,
     useTimestamp |-> FALSE, restoredPath |-> Null, list |-> <<>>]

Req(op, path) == [NoResp EXCEPT !.op = op, !.path = path]

NoCall == [fn |-> "none", content |-> Null, searchText |-> Null, occurrenceIndex |-> 0,
           result |-> NotFound]

----------------------------------------------------------------------------
(* State after construction: the served directory holds one document, the    *)
(* event service has scanned it (one resource row per directory and file).   *)

Init ==
    /\ files = [p \in DocPaths |-> <<"a", "b">>]
    /\ resources = (1 :> ResourceRow(RootDir, "dir", 0)) @@ (2 :> ResourceRow(DocA, "file", 0))
    /\ highlights = <<>>
    /\ events = <<>>
    /\ pathMap = (RootDir :> 1) @@ (DocA :> 2)
    /\ now = 0
    /\ nextId = 3
    /\ resp = NoResp
    /\ call = NoCall
    /\ inflight = <<>>
    /\ eventQueue = <<>>
    /\ isScanning = FALSE
    /\ watchedFiles = <<>>
    /\ debounceTimers = {}
    /\ wsFile = <<>>

----------------------------------------------------------------------------
(* The world outside the server: editors, the clock *)

WriteFile(path, content) ==
    /\ files' = [p \in DOMAIN files \cup {path} |-> IF p = path THEN content ELSE files[p]]
    /\ resp' = NoResp
    /\ UNCHANGED <<resources, highlights, events, pathMap, now, nextId, call, auxVars>>

RemoveFile(path) ==
    /\ path \in DOMAIN files
    /\ files' = [p \in DOMAIN files \ {path} |-> files[p]]
    /\ resp' = NoResp
    /\ UNCHANGED <<resources, highlights, events, pathMap, now, nextId, call, auxVars>>

Tick ==
    /\ now < MaxTime
    /\ now' = now + 1
    /\ resp' = NoResp
    /\ UNCHANGED <<files, resources, highlights, events, pathMap, nextId, call, auxVars>>

----------------------------------------------------------------------------
(* POST /api/highlights *)

\* a handler that never flags a new highlight stale
CreateNeverStale(fileContent, highlightedText, offsets) == FALSE

\* a handler that flags every difference, whitespace included
CreateIsStaleExact(fileContent, highlightedText, offsets) ==
    Slice(fileContent, offsets.startOffset, offsets.endOffset) # highlightedText

\* the stale flag handleCreateHighlight computes from the text at the located offsets
CreateIsStale(fileContent, highlightedText, offsets) ==
    LET extractedText == Slice(fileContent, offsets.startOffset, offsets.endOffset)
    IN  IF extractedText = highlightedText THEN FALSE
        ELSE normalizeWhitespace(extractedText) # normalizeWhitespace(highlightedText)

\* a handler that backs the file up on every create
AlwaysNeedsBackup(resource) == TRUE

\* if (!resource.backupPath)
NeedsBackup(resource) == resource.backup_path = Null

\* backupFile: copyFileSync(filePath, backupPath)
backupFile(fs, filePath, backupPath) ==
    [p \in DOMAIN fs \cup {backupPath} |-> IF p = backupPath THEN fs[filePath] ELSE fs[p]]

\* the handler from the located offsets on: backup on the first highlight, insert,
\* mark stale, respond 201
CreateStore(req, rid, text, fileContent, offsets) ==
    LET contentHash == computeFileHash(fileContent)
        isStale == CreateIsStale(fileContent, text, offsets)
        backupPath == BackupPathOf(req.path, rid, now)
        inserted == createHighlight(highlights, nextId, rid, offsets.startOffset,
                                    offsets.endOffset, text, contentHash)
    IN  /\ nextId <= MaxIds
        /\ IF NeedsBackup(resources[rid])
           THEN /\ files' = backupFile(files, req.path, backupPath)
                /\ resources' = updateResourceBackup(resources, rid, contentHash, backupPath)
           ELSE UNCHANGED <<files, resources>>
        /\ highlights' = IF isStale THEN markHighlightStale(inserted, nextId) ELSE inserted
        /\ nextId' = nextId + 1
        /\ resp' = [req EXCEPT !.status = 201, !.id = nextId, !.isStale = isStale]

\* a handler that takes the first-highlight backup before it locates the text
handleCreateBackupFirst(path, text, index) ==
    LET req == Req("create", path)
        rid == getResourceByPath(path)
        offsets == findTextOffset(files[path], text, index)
        backupPath == BackupPathOf(path, rid, now)
        Fail(status) == /\ resp' = [req EXCEPT !.status = status]
                        /\ UNCHANGED <<files, resources, highlights, nextId>>
    IN  /\ UNCHANGED <<events, pathMap, now, call, auxVars>>
        /\ IF path = Null \/ text = Null THEN Fail(400)
           ELSE IF rid = 0 THEN Fail(404)
           ELSE IF path \notin DOMAIN files THEN Fail(500)
           ELSE IF ~offsets.found
           THEN /\ resp' = [req EXCEPT !.status = 400]
                /\ IF NeedsBackup(resources[rid])
                   THEN /\ files' = backupFile(files, path, backupPath)
                        /\ resources' = updateResourceBackup(resources, rid,
                                             computeFileHash(files[path]), backupPath)
                   ELSE UNCHANGED <<files, resources>>
                /\ UNCHANGED <<highlights, nextId>>
           ELSE CreateStore(req, rid, text, files[path], offsets)

handleCreateHighlight(path, text, index) ==
    LET req == Req("create", path)
        rid == getResourceByPath(path)
        offsets == findTextOffset(files[path], text, index)
        Fail(status) == /\ resp' = [req EXCEPT !.status = status]
                        /\ UNCHANGED <<files, resources, highlights, nextId>>
    IN  /\ UNCHANGED <<events, pathMap, now, call, auxVars>>
        /\ IF path = Null \/ text = Null THEN Fail(400)
           ELSE IF rid = 0 THEN Fail(404)
           ELSE IF path \notin DOMAIN files THEN Fail(500)
           ELSE IF ~offsets.found THEN Fail(400)
           ELSE CreateStore(req, rid, text, files[path], offsets)

\* POST /api/highlights as the event loop runs it: the handler up to
\* await import("../highlights"), where it holds the resource row it looked up and
\* the content it read, and is suspended
CreateBegin(path, text, index) ==
    LET req == Req("create", path)
        rid == getResourceByPath(path)
        Fail(status) == resp' = [req EXCEPT !.status = status] /\ UNCHANGED inflight
    IN  /\ Len(inflight) < MaxInflight
        /\ UNCHANGED <<files, resources, highlights, events, pathMap, now, nextId, call,
                       eventQueue, isScanning, watchedFiles, debounceTimers, wsFile>>
        /\ IF path = Null \/ text = Null THEN Fail(400)
           ELSE IF rid = 0 THEN Fail(404)
           ELSE IF path \notin DOMAIN files THEN Fail(500)
           ELSE /\ inflight' = Append(inflight,
                                      [path |-> path, text |-> text, index |-> index,
                                       resource |-> [id |-> rid,
                                                     backupPath |-> resources[rid].backup_path],
                                       fileContent |-> files[path]])
                /\ resp' = NoResp

\* the suspended handler resumed, the oldest first: locate the text in the content
\* read before the await, back the file up if the row looked up before the await had
\* no backupPath, insert the highlight, respond
CreateFinish ==
    LET ctx == Head(inflight)
        req == Req("create", ctx.path)
        rid == ctx.resource.id
        offsets == findTextOffset(ctx.fileContent, ctx.text, ctx.index)
        contentHash == computeFileHash(ctx.fileContent)
        isStale == CreateIsStale(ctx.fileContent, ctx.text, offsets)
        needsBackup == ctx.resource.backupPath = Null
        backupPath == BackupPathOf(ctx.path, rid, now)
        inserted == createHighlight(highlights, nextId, rid, offsets.startOffset,
                                    offsets.endOffset, ctx.text, contentHash)
    IN  /\ inflight # <<>>
        /\ inflight' = Tail(inflight)
        /\ UNCHANGED <<events, pathMap, now, call, eventQueue, isScanning, watchedFiles,
                       debounceTimers, wsFile>>
        /\ IF ~offsets.found
           THEN /\ resp' = [req EXCEPT !.status = 400]
                /\ UNCHANGED <<files, resources, highlights, nextId>>
           ELSE IF needsBackup /\ ctx.path \notin DOMAIN files
           THEN \* copyFileSync throws, the catch answers 500
                /\ resp' = [req EXCEPT !.status = 500]
                /\ UNCHANGED <<files, resources, highlights, nextId>>
           ELSE /\ nextId <= MaxIds
                /\ IF needsBackup
                   THEN /\ files' = backupFile(files, ctx.path, backupPath)
                        /\ resources' = IF rid \in DOMAIN resources
                                        THEN updateResourceBackup(resources, rid, contentHash,
                                                                  backupPath)
                                        ELSE resources
                   ELSE UNCHANGED <<files, resources>>
                /\ IF rid \in DOMAIN resources
                   THEN /\ highlights' = IF isStale THEN markHighlightStale(inserted, nextId)
                                         ELSE inserted
                        /\ nextId' = nextId + 1
                        /\ resp' = [req EXCEPT !.status = 201, !.id = nextId,
                                                !.isStale = isStale]
                   ELSE \* the insert violates the foreign key, the catch answers 500
                        /\ resp' = [req EXCEPT !.status = 500]
                        /\ UNCHANGED <<highlights, nextId>>

----------------------------------------------------------------------------
(* GET /api/highlights/resource?path=... *)

\* a catch branch that leaves the table as it is
KeepAllOfResource(tbl, resourceId) == tbl

\* the catch branch: the file cannot be read, every highlight of the resource is deleted
DeleteAllOfResource(tbl, resourceId) ==
    [h \in {x \in DOMAIN tbl : tbl[x].resource_id # resourceId} |-> tbl[h]]

handleGetResourceHighlights(path) ==
    LET req == Req("list", path)
        rid == getResourceByPath(path)
    IN  /\ UNCHANGED <<files, resources, events, pathMap, now, nextId, call, auxVars>>
        /\ IF path = Null
           THEN resp' = [req EXCEPT !.status = 400] /\ UNCHANGED highlights
           ELSE IF rid = 0
           THEN resp' = [req EXCEPT !.status = 404] /\ UNCHANGED highlights
           ELSE IF path \notin DOMAIN files
           THEN /\ highlights' = DeleteAllOfResource(highlights, rid)
                /\ resp' = [req EXCEPT !.status = 200, !.id = rid]
           ELSE /\ highlights' = deleteInvalidHighlights(highlights, rid, files[path])
                /\ \E list \in getHighlightsByResource(highlights', rid) :
                       resp' = [req EXCEPT !.status = 200, !.id = rid, !.list = list]

----------------------------------------------------------------------------
(* DELETE /api/highlights/:id *)

handleDeleteHighlight(highlightId) ==
    /\ IF highlightId = 0
       THEN resp' = [Req("delete", Null) EXCEPT !.status = 400] /\ UNCHANGED highlights
       ELSE /\ highlights' = deleteHighlight(highlights, highlightId)
            /\ resp' = [Req("delete", Null) EXCEPT !.status = 204, !.id = highlightId]
    /\ UNCHANGED <<files, resources, events, pathMap, now, nextId, call, auxVars>>

----------------------------------------------------------------------------
(* POST /api/highlights/:id/restore *)

\* restoreFile's copyFileSync(params.backupPath, targetPath)
restoreCopy(fs, backupPath, targetPath) ==
    [p \in DOMAIN fs \cup {targetPath} |-> IF p = targetPath THEN fs[backupPath] ELSE fs[p]]

handleRestoreFile(highlightId, useTimestamp) ==
    LET req == [Req("restore", Null) EXCEPT !.id = highlightId, !.useTimestamp = useTimestamp]
        found == highlightId \in DOMAIN highlights
        res == resources[highlights[highlightId].resource_id]
        targetPath == RestoreTarget(res.path, useTimestamp, highlights[highlightId].created_at)
    IN  /\ UNCHANGED <<highlights, events, pathMap, now, call, auxVars>>
        /\ IF highlightId = 0
           THEN resp' = [req EXCEPT !.status = 400] /\ UNCHANGED <<files, resources, nextId>>
           ELSE IF ~found \/ res.backup_path = Null
           THEN resp' = [req EXCEPT !.status = 404] /\ UNCHANGED <<files, resources, nextId>>
           ELSE IF res.backup_path \notin DOMAIN files
           THEN \* restoreFile throws "Backup file not found"; the handler's catch answers
                /\ resp' = [req EXCEPT !.status = 500, !.path = res.path]
                /\ UNCHANGED <<files, resources, nextId>>
           ELSE /\ files' = restoreCopy(files, res.backup_path, targetPath)
                /\ IF targetPath = res.path
                   THEN /\ resp' = [req EXCEPT !.status = 200, !.path = res.path,
                                               !.restoredPath = targetPath]
                        /\ UNCHANGED <<resources, nextId>>
                   ELSE IF getResourceByPath(targetPath) # 0
                   THEN \* INSERT violates resources.path UNIQUE and throws
                        /\ resp' = [req EXCEPT !.status = 500, !.path = res.path]
                        /\ UNCHANGED <<resources, nextId>>
                   ELSE /\ nextId <= MaxIds
                        /\ resources' = resources @@ (nextId :> ResourceRow(targetPath, "file", now))
                        /\ nextId' = nextId + 1
                        /\ resp' = [req EXCEPT !.status = 200, !.path = res.path,
                                               !.restoredPath = targetPath]

----------------------------------------------------------------------------
(* GET /api/highlights/directory?path=... *)

\* SQLite's LIKE folds the case of ASCII letters
Fold(c) == IF c = "A" THEN "a" ELSE IF c = "D" THEN "d" ELSE c

\* SQLite's LIKE without ESCAPE: % matches any run of characters, _ any one character
RECURSIVE Like(_, _)
Like(pattern, s) ==
    IF pattern = <<>> THEN s = <<>>
    ELSE IF Head(pattern) = "%"
    THEN Like(Tail(pattern), s) \/ (s # <<>> /\ Like(pattern, Tail(s)))
    ELSE IF s = <<>> THEN FALSE
    ELSE IF Head(pattern) = "_" THEN Like(Tail(pattern), Tail(s))
    ELSE Fold(Head(pattern)) = Fold(Head(s)) /\ Like(Tail(pattern), Tail(s))

\* the joined rows WHERE r.path LIKE `${directoryPath}%`
RowsLikeDirectory(tbl, res, directoryPath) ==
    {h \in DOMAIN tbl : /\ tbl[h].resource_id \in DOMAIN res
                        /\ Like(directoryPath \o <<"%">>, res[tbl[h].resource_id].path)}

\* a joined row as getHighlightsByDirectory maps it
DirectoryView(tbl, res, h) ==
    [id |-> h, resourceId |-> tbl[h].resource_id,
     resourcePath |-> res[tbl[h].resource_id].path,
     startOffset |-> tbl[h].start_offset, endOffset |-> tbl[h].end_offset,
     highlightedText |-> tbl[h].highlighted_text, contentHash |-> tbl[h].content_hash,
     isStale |-> tbl[h].is_stale, createdAt |-> tbl[h].created_at,
     updatedAt |-> tbl[h].updated_at]

\* getHighlightsByDirectory with ORDER BY h.created_at ASC
getHighlightsByDirectoryOldestFirst(tbl, res, directoryPath) ==
    LET ids == RowsLikeDirectory(tbl, res, directoryPath)
        n == Cardinality(ids)
        orders == {o \in [1..n -> ids] :
                     /\ \A i, j \in 1..n : i # j => o[i] # o[j]
                     /\ \A i, j \in 1..n : i < j => tbl[o[i]].created_at <= tbl[o[j]].created_at}
    IN  {[i \in 1..n |-> DirectoryView(tbl, res, o[i])] : o \in orders}

\* getHighlightsByDirectory: ORDER BY h.created_at DESC; rows created at the same
\* time come in an order SQL leaves open
getHighlightsByDirectory(tbl, res, directoryPath) ==
    LET ids == RowsLikeDirectory(tbl, res, directoryPath)
        n == Cardinality(ids)
        orders == {o \in [1..n -> ids] :
                     /\ \A i, j \in 1..n : i # j => o[i] # o[j]
                     /\ \A i, j \in 1..n : i < j => tbl[o[i]].created_at >= tbl[o[j]].created_at}
    IN  {[i \in 1..n |-> DirectoryView(tbl, res, o[i])] : o \in orders}

\* directoryHasHighlights: SELECT COUNT(*) ... WHERE r.path LIKE ?; count > 0
directoryHasHighlights(tbl, res, directoryPath) ==
    Cardinality(RowsLikeDirectory(tbl, res, directoryPath)) > 0

\* the directory prefixes requested: none, the document's stem, the stem of its
\* timestamped copies, the root in upper case, a relative path, another directory
DirPrefixes ==
    { Null, <<"/", "d", "/", "a", ".">>, <<"/", "d", "/", "a", "_">>, <<"/", "D">>,
      <<"a">>, CacheDir }

handleGetDirectoryHighlights(path) ==
    LET directoryPath == IF path = Null THEN RootDir ELSE path
        absolutePath == IF Head(directoryPath) = "/" THEN directoryPath
                        ELSE join(RootDir, directoryPath)
    IN  /\ \E list \in getHighlightsByDirectory(highlights, resources, absolutePath) :
               resp' = [Req("directory", absolutePath) EXCEPT !.status = 200, !.list = list]
        /\ UNCHANGED <<files, resources, highlights, events, pathMap, now, nextId, call, auxVars>>

----------------------------------------------------------------------------
(* Archive commands *)

\* listArchiveFiles: the entries of the cache directory whose name ends with ".md"
\* String.prototype.split(separator) for a one-character separator
RECURSIVE Split(_, _)
Split(s, separator) ==
    LET hits == {i \in 1..Len(s) : s[i] = separator}
    IN  IF hits = {} THEN <<s>>
        ELSE LET i == CHOOSE k \in hits : \A j \in hits : k <= j
             IN  <<SubSeq(s, 1, i - 1)>> \o Split(SubSeq(s, i + 1, Len(s)), separator)

\* Array.prototype.join(separator)
RECURSIVE JoinWith(_, _)
JoinWith(parts, separator) ==
    IF parts = <<>> THEN <<>>
    ELSE IF Len(parts) = 1 THEN parts[1]
    ELSE parts[1] \o <<separator>> \o JoinWith(Tail(parts), separator)

\* Number.parseInt(s, 10) for an unsigned numeral: the value of the leading digits,
\* and NaN, written -1, when s does not start with a digit
ParseInt(s) ==
    LET DigitValue(c) == CHOOSE n \in 0..9 : Digit(n) = c
        IsDigit(c) == \E n \in 0..9 : Digit(n) = c
        stops == {i \in 1..Len(s) : ~IsDigit(s[i])}
        last == IF stops = {} THEN Len(s)
                ELSE (CHOOSE i \in stops : \A j \in stops : i <= j) - 1
        Value[i \in 0..last] == IF i = 0 THEN 0 ELSE Value[i - 1] * 10 + DigitValue(s[i])
    IN  IF last = 0 THEN 0 - 1 ELSE Value[last]

\* listArchiveFiles with the original name taken from the third part alone
listArchiveFilesThirdPart(fs) ==
    {LET parts == Split(basename(p), "_")
     IN  [path |-> p,
          size |-> Len(fs[p]),
          resourceId |-> parts[1],
          timestamp |-> ParseInt(IF Len(parts) >= 2 /\ parts[2] # <<>> THEN parts[2] ELSE <<"0">>),
          originalName |-> IF Len(parts) >= 3 THEN parts[3] ELSE <<>>]
     : p \in {q \in DOMAIN fs : dirname(q) = CacheDir /\ EndsWith(basename(q), MdExt)}}

\* one entry per file of the cache directory whose name ends with ".md", with the
\* metadata parsed from the name {resourceId}_{timestamp}_{originalName}; the entries
\* are kept as a set, their order by mtime left out
listArchiveFiles(fs) ==
    {LET parts == Split(basename(p), "_")
     IN  [path |-> p,
          size |-> Len(fs[p]),
          resourceId |-> parts[1],
          timestamp |-> ParseInt(IF Len(parts) >= 2 /\ parts[2] # <<>> THEN parts[2] ELSE <<"0">>),
          originalName |-> JoinWith(SubSeq(parts, 3, Len(parts)), "_")]
     : p \in {q \in DOMAIN fs : dirname(q) = CacheDir /\ EndsWith(basename(q), MdExt)}}

\* clearArchive: rmSync of every listed file
clearArchive ==
    /\ files' = [p \in DOMAIN files \ {e.path : e \in listArchiveFiles(files)} |-> files[p]]
    /\ resp' = [Req("clearArchive", Null) EXCEPT !.id = Cardinality(listArchiveFiles(files))]
    /\ UNCHANGED <<resources, highlights, events, pathMap, now, nextId, call, auxVars>>

----------------------------------------------------------------------------
(* Event service *)

\* recordEventSync, reached from recordEvent once the scan is over
recordEventSync(db, type, absolutePath, resourceType) ==
    LET cached == IF absolutePath \in DOMAIN db.pathMap THEN db.pathMap[absolutePath] ELSE 0
        ids == {r \in DOMAIN db.resources : db.resources[r].path = absolutePath}
        stored == IF ids = {} THEN 0 ELSE CHOOSE r \in ids : TRUE
        resourceId == IF cached # 0 THEN cached ELSE IF stored # 0 THEN stored ELSE db.nextId
        create == cached = 0 /\ stored = 0
        rows == IF create
                THEN db.resources @@ (db.nextId :> ResourceRow(absolutePath, resourceType, now))
                ELSE db.resources
    IN  [resources |-> rows,
         nextId |-> IF create THEN db.nextId + 1 ELSE db.nextId,
         pathMap |-> [p \in DOMAIN db.pathMap \cup {absolutePath} |->
                        IF p = absolutePath THEN resourceId ELSE db.pathMap[p]],
         \* events.resource_id REFERENCES resources(id): the insert throws for an id
         \* the table no longer holds, and the catch logs it
         events |-> IF resourceId \in DOMAIN rows
                    THEN Append(db.events, [type |-> type, resource_id |-> resourceId,
                                            timestamp |-> now])
                    ELSE db.events]

\* the tables and the map recordEventSync reads and writes
EventDb == [resources |-> resources, nextId |-> nextId, pathMap |-> pathMap, events |-> events]

\* recordEvent: queue the event while the scan runs, else record it at once
recordEvent(type, absolutePath, resourceType) ==
    LET db == recordEventSync(EventDb, type, absolutePath, resourceType)
    IN  /\ Len(events) + Len(eventQueue) < MaxEvents
        /\ IF isScanning
           THEN /\ eventQueue' = Append(eventQueue, [type |-> type, path |-> absolutePath,
                                                      resourceType |-> resourceType])
                /\ UNCHANGED <<resources, nextId, pathMap, events>>
           ELSE /\ db.nextId <= MaxIds + 1
                /\ resources' = db.resources
                /\ nextId' = db.nextId
                /\ pathMap' = db.pathMap
                /\ events' = db.events
                /\ UNCHANGED eventQueue
        /\ resp' = NoResp
        /\ UNCHANGED <<files, highlights, now, call, inflight, isScanning, watchedFiles,
                       debounceTimers, wsFile>>

\* cleanupOldEvents(days): delete the events older than the cutoff, then the
\* resources no event refers to (their highlights go with them)
cleanupOldEvents(days) ==
    LET cutoffTime == now - days * DayMs
        kept == SelectSeq(events, LAMBDA e : ~(e.timestamp < cutoffTime))
        referenced == {kept[i].resource_id : i \in 1..Len(kept)}
        orphaned == DOMAIN resources \ referenced
    IN  /\ events' = kept
        /\ resources' = [r \in DOMAIN resources \ orphaned |-> resources[r]]
        /\ highlights' = CascadeDelete(highlights, orphaned)
        /\ resp' = [Req("cleanup", Null) EXCEPT !.id = Cardinality(orphaned)]
        /\ UNCHANGED <<files, pathMap, now, nextId, call, auxVars>>

\* clearDatabase: DELETE FROM events; DELETE FROM resources
clearDatabase ==
    /\ events' = <<>>
    /\ resources' = <<>>
    /\ highlights' = CascadeDelete(highlights, DOMAIN resources)
    /\ resp' = Req("clearDatabase", Null)
    /\ UNCHANGED <<files, pathMap, now, nextId, call, auxVars>>

\* the markdown files scanMarkdownFiles finds under the served directory
ScannedFiles == {p \in DOMAIN files : dirname(p) = RootDir /\ EndsWith(basename(p), MdExt)}

\* a server start: initEventService opens the database, starts the scan with an
\* empty pathMap and an empty queue, and returns
initEventService ==
    /\ ~isScanning
    /\ pathMap' = <<>>
    /\ eventQueue' = <<>>
    /\ isScanning' = TRUE
    /\ resp' = NoResp
    /\ UNCHANGED <<files, resources, highlights, events, now, nextId, call, inflight,
                   watchedFiles, debounceTimers, wsFile>>

\* scanAndCreateResources run to its end: INSERT OR IGNORE of the root directory and
\* of every file, pathMap filled
ScannedDb ==
    LET wanted == {RootDir} \cup ScannedFiles
        missing == {p \in wanted : getResourceByPath(p) = 0}
        n == Cardinality(missing)
        fresh == CHOOSE f \in [missing -> nextId..(nextId + n - 1)] :
                     \A p, q \in missing : p # q => f[p] # f[q]
    IN  [resources |-> [r \in DOMAIN resources \cup {fresh[p] : p \in missing} |->
                           IF r \in DOMAIN resources THEN resources[r]
                           ELSE LET p == CHOOSE q \in missing : fresh[q] = r
                                IN  ResourceRow(p, IF p = RootDir THEN "dir" ELSE "file", now)],
         nextId |-> nextId + n,
         pathMap |-> [p \in DOMAIN pathMap \cup wanted |->
                        IF p \in missing THEN fresh[p]
                        ELSE IF p \in wanted THEN getResourceByPath(p) ELSE pathMap[p]],
         events |-> events]

\* for (const event of eventQueue) recordEventSync(event.type, event.path, event.resourceType)
RECURSIVE ProcessQueue(_, _)
ProcessQueue(db, queue) ==
    IF queue = <<>> THEN db
    ELSE ProcessQueue(recordEventSync(db, Head(queue).type, Head(queue).path,
                                      Head(queue).resourceType),
                      Tail(queue))

\* the scan promise resolves: .then clears isScanning and processes the queue
scanResolved ==
    LET db == ProcessQueue(ScannedDb, eventQueue)
    IN  /\ isScanning
        /\ db.nextId <= MaxIds + 1
        /\ resources' = db.resources
        /\ nextId' = db.nextId
        /\ pathMap' = db.pathMap
        /\ events' = db.events
        /\ isScanning' = FALSE
        /\ eventQueue' = <<>>
        /\ resp' = NoResp
        /\ UNCHANGED <<files, highlights, now, call, inflight, watchedFiles,
                       debounceTimers, wsFile>>

\* the scan promise rejects: .catch logs the error and clears isScanning
scanRejected ==
    /\ isScanning
    /\ isScanning' = FALSE
    /\ resp' = NoResp
    /\ UNCHANGED <<files, resources, highlights, events, pathMap, now, nextId, call,
                   inflight, eventQueue, watchedFiles, debounceTimers, wsFile>>

----------------------------------------------------------------------------------------------------------------------------------------------------------------------------------------------------------------------------------------------------------------------------------------------------
(* Specifications.  Requests are handled one at a time; between them an       *)
(* editor changes the document and the clock advances.                        *)

HandlerPaths ==
    DocPaths \cup {resources[r].path : r \in {x \in DOMAIN resources : resources[x].type = "file"}}

\* creating, listing and deleting highlights while the document is edited
NextEdit ==
    \/ \E p \in DocPaths, c \in Docs : WriteFile(p, c)
    \/ \E p \in DocPaths : RemoveFile(p)
    \/ Tick
    \/ \E p \in HandlerPaths, t \in Texts, i \in Indexes : handleCreateHighlight(p, t, i)
    \/ \E p \in HandlerPaths : handleGetResourceHighlights(p)
    \/ \E h \in DOMAIN highlights \cup {0} : handleDeleteHighlight(h)

SpecEdit == Init /\ [][NextEdit]_vars

\* all highlight routes and the archive command
Next ==
    \/ \E p \in DocPaths, c \in Docs : WriteFile(p, c)
    \/ \E p \in DocPaths : RemoveFile(p)
    \/ Tick
    \/ \E p \in HandlerPaths, t \in Texts, i \in Indexes : handleCreateHighlight(p, t, i)
    \/ \E p \in HandlerPaths : handleGetResourceHighlights(p)
    \/ \E h \in DOMAIN highlights \cup {0} : handleDeleteHighlight(h)
    \/ \E h \in DOMAIN highlights \cup {0}, u \in BOOLEAN : handleRestoreFile(h, u)
    \/ clearArchive

Spec == Init /\ [][Next]_vars

\* the directory listing beside creates, timestamped restores, deletes and edits
NextDir ==
    \/ \E p \in DocPaths, c \in {<<"a", "b">>, <<"a">>} : WriteFile(p, c)
    \/ \E p \in DocPaths : RemoveFile(p)
    \/ Tick
    \/ \E p \in HandlerPaths, i \in {-1, 0} : handleCreateHighlight(p, <<"b">>, i)
    \/ \E h \in DOMAIN highlights : handleDeleteHighlight(h)
    \/ \E h \in DOMAIN highlights : handleRestoreFile(h, TRUE)
    \/ \E d \in DirPrefixes : handleGetDirectoryHighlights(d)

SpecDir == Init /\ [][NextDir]_vars

\* the event service and the database commands beside the highlight routes
NextDb ==
    \/ \E p \in DocPaths : RemoveFile(p)
    \/ Tick
    \/ \E p \in HandlerPaths : handleCreateHighlight(p, <<"b">>, 0)
    \/ \E h \in DOMAIN highlights : handleRestoreFile(h, TRUE)
    \/ \E p \in DocPaths : recordEvent("view", p, "file")
    \/ recordEvent("open", RootDir, "dir")
    \/ \E d \in {0, 1} : cleanupOldEvents(d)
    \/ clearDatabase
    \/ initEventService
    \/ scanResolved
    \/ scanRejected

SpecDb == Init /\ [][NextDb]_vars

\* the file watcher and the WebSocket connections that subscribe to it
Sockets == {"ws1", "ws2"}
RelFiles == {<<"a">> \o MdExt, <<"x">> \o MdExt}

\* watchFile(rootDir, relativePath, subscriber)
watchFile(watched, fs, relativePath, subscriber) ==
    IF relativePath \in DOMAIN watched
    THEN [watched EXCEPT ![relativePath] = @ \cup {subscriber}]
    ELSE IF join(RootDir, relativePath) \notin DOMAIN fs
    THEN watched      \* fs.watch throws for a missing file; the caller's catch logs it
    ELSE watched @@ (relativePath :> {subscriber})

\* unwatchFile(relativePath, subscriber): the maps it leaves
unwatchFile(watched, timers, relativePath, subscriber) ==
    IF relativePath \notin DOMAIN watched
    THEN [watchedFiles |-> watched, debounceTimers |-> timers]
    ELSE IF watched[relativePath] \ {subscriber} = {}
    THEN [watchedFiles |-> [f \in DOMAIN watched \ {relativePath} |-> watched[f]],
          debounceTimers |-> timers \ {relativePath}]
    ELSE [watchedFiles |-> [watched EXCEPT ![relativePath] = @ \ {subscriber}],
          debounceTimers |-> timers]

\* wss.on("connection"): a client connects, its ws.file is undefined
wsConnection(ws) ==
    /\ ws \notin DOMAIN wsFile
    /\ wsFile' = wsFile @@ (ws :> [open |-> TRUE, file |-> Null])
    /\ UNCHANGED <<sysVars, call, inflight, eventQueue, isScanning, watchedFiles,
                   debounceTimers>>

\* handleWebSocketMessage for {type: "watch", file}
handleWebSocketMessage(ws, file) ==
    /\ ws \in DOMAIN wsFile /\ wsFile[ws].open
    /\ IF file = Null
       THEN UNCHANGED <<wsFile, watchedFiles>>
       ELSE /\ wsFile' = [wsFile EXCEPT ![ws].file = file]
            /\ watchedFiles' = watchFile(watchedFiles, files, file, ws)
    /\ UNCHANGED <<sysVars, call, inflight, eventQueue, isScanning, debounceTimers>>

\* the fs.watch callback for a "change" event: restart the file's debounce timer
watchChange(relativePath) ==
    /\ relativePath \in DOMAIN watchedFiles
    /\ debounceTimers' = debounceTimers \cup {relativePath}
    /\ UNCHANGED <<sysVars, call, inflight, eventQueue, isScanning, watchedFiles, wsFile>>

\* the debounce timer fires: "reload" is sent to the file's subscribers and the timer
\* is forgotten
debounceFire(relativePath) ==
    /\ relativePath \in debounceTimers
    /\ debounceTimers' = debounceTimers \ {relativePath}
    /\ resp' = [Req("reload", join(RootDir, relativePath))
                   EXCEPT !.id = IF relativePath \in DOMAIN watchedFiles
                                 THEN Cardinality(watchedFiles[relativePath]) ELSE 0]
    /\ UNCHANGED <<files, resources, highlights, events, pathMap, now, nextId, call,
                   inflight, eventQueue, isScanning, watchedFiles, wsFile>>

\* ws.on("close"): if (ws.file) unwatchFile(ws.file, ws)
wsClose(ws) ==
    LET left == unwatchFile(watchedFiles, debounceTimers, wsFile[ws].file, ws)
    IN  /\ ws \in DOMAIN wsFile /\ wsFile[ws].open
        /\ wsFile' = [wsFile EXCEPT ![ws].open = FALSE]
        /\ IF wsFile[ws].file # Null
           THEN /\ watchedFiles' = left.watchedFiles
                /\ debounceTimers' = left.debounceTimers
           ELSE UNCHANGED <<watchedFiles, debounceTimers>>
        /\ UNCHANGED <<sysVars, call, inflight, eventQueue, isScanning>>

NextWatch ==
    \/ \E f \in RelFiles : WriteFile(join(RootDir, f), <<"a">>)
    \/ \E f \in RelFiles : RemoveFile(join(RootDir, f))
    \/ \E ws \in Sockets : wsConnection(ws)
    \/ \E ws \in Sockets, f \in RelFiles \cup {Null} : handleWebSocketMessage(ws, f)
    \/ \E f \in RelFiles : watchChange(f)
    \/ \E f \in RelFiles : debounceFire(f)
    \/ \E ws \in Sockets : wsClose(ws)

SpecWatch == Init /\ [][NextWatch]_vars

\* the archive of a directory whose document has "_" in its name
DocU == RootDir \o <<"/", "a", "_", "a">> \o MdExt

InitArchive ==
    /\ files = (DocU :> <<"a", "b">>)
    /\ resources = (1 :> ResourceRow(RootDir, "dir", 0)) @@ (2 :> ResourceRow(DocU, "file", 0))
    /\ highlights = <<>>
    /\ events = <<>>
    /\ pathMap = (RootDir :> 1) @@ (DocU :> 2)
    /\ Init!6 /\ Init!7 /\ Init!8 /\ Init!9
    /\ Init!10 /\ Init!11 /\ Init!12 /\ Init!13 /\ Init!14 /\ Init!15

NextArchive ==
    \/ \E c \in {<<"a", "b">>, <<"a">>} : WriteFile(DocU, c)
    \/ Tick
    \/ \E p \in HandlerPaths : handleCreateHighlight(p, <<"b">>, 0)
    \/ \E h \in DOMAIN highlights : handleDeleteHighlight(h)
    \/ \E h \in DOMAIN highlights : handleRestoreFile(h, TRUE)
    \/ clearArchive

SpecArchive == InitArchive /\ [][NextArchive]_vars

\* requests with missing fields and unknown documents, and texts that are found only
\* after whitespace normalization
DocX == RootDir \o <<"/", "x">> \o MdExt
RequestPaths == HandlerPaths \cup {Null, DocX}
FallbackDocs == { <<"a", "b">>, <<"a", "a">>, <<"a", "a", "b">> }
FallbackTexts == { <<"b">>, <<" ", "a">>, Null }

NextRequests ==
    \/ \E p \in DocPaths, c \in FallbackDocs : WriteFile(p, c)
    \/ \E p \in DocPaths : RemoveFile(p)
    \/ \E p \in RequestPaths, t \in FallbackTexts, i \in {0, 1} :
           handleCreateHighlight(p, t, i)
    \/ \E p \in RequestPaths : handleGetResourceHighlights(p)
    \/ \E h \in DOMAIN highlights \cup {0} : handleDeleteHighlight(h)

SpecRequests == Init /\ [][NextRequests]_vars

\* create requests in flight together, while the document is edited
NextConc ==
    \/ \E c \in {<<"a", "b">>, <<"b">>} : WriteFile(DocA, c)
    \/ \E p \in DocPaths : RemoveFile(p)
    \/ Tick
    \/ \E p \in RequestPaths, t \in {<<"b">>, <<"a">>, Null} : CreateBegin(p, t, 0)
    \/ CreateFinish

SpecConc == Init /\ [][NextConc]_vars

\* the occurrence locator called directly: the arguments are drawn from every
\* content, search text and index within the bounds, then the call is made
InitLocator ==
    /\ Init!1 /\ Init!2 /\ Init!3 /\ Init!4 /\ Init!5 /\ Init!6 /\ Init!7 /\ Init!8
    /\ Init!10 /\ Init!11 /\ Init!12 /\ Init!13 /\ Init!14 /\ Init!15
    /\ \E content \in StrsUpTo(MaxLen), searchText \in StrsUpTo(MaxLen) \ {<<>>},
          occurrenceIndex \in (0 - 2)..(MaxLen + 1) :
           call = [NoCall EXCEPT !.fn = "pending", !.content = content,
                                 !.searchText = searchText,
                                 !.occurrenceIndex = occurrenceIndex]

LocateCall ==
    /\ call.fn = "pending"
    /\ call' = [call EXCEPT !.fn = "findTextOffset",
                            !.result = findTextOffset(call.content, call.searchText,
                                                      call.occurrenceIndex)]
    /\ UNCHANGED <<sysVars, auxVars>>

NextLocator == LocateCall

SpecLocator == InitLocator /\ [][NextLocator]_vars

----------------------------------------------------------------------------
(* Properties of the list route (GET /api/highlights/resource) *)

\* this step is a list read that found the resource and read its file
ListRead == resp'.op = "list" /\ resp'.status = 200 /\ resp'.path \in DOMAIN files

\* highlight h belongs to the resource this list read is about
OfListed(h) == highlights[h].resource_id = resp'.id

Located(content, text) == findTextOffset(content, text, 0).found

SameSpan(h) ==
    /\ highlights'[h].start_offset = highlights[h].start_offset
    /\ highlights'[h].end_offset = highlights[h].end_offset
    /\ highlights'[h].content_hash = highlights[h].content_hash

\* C1: a list read of a readable file deletes no highlight of the resource, and
\* a highlight whose text is not located in the content is kept and stale afterwards.
C1_ListKeepsRows ==
    [][ListRead =>
         \A h \in DOMAIN highlights :
             OfListed(h) =>
                 /\ h \in DOMAIN highlights'
                 /\ ~Located(files[resp'.path], highlights[h].highlighted_text)
                        => highlights'[h].is_stale]_vars

\* C2: a list read relocates a non-stale highlight whose hash differs from the
\* content's and whose text occurs in it: the stored row gets the span of occurrence 0,
\* the content's hash and stale = false, and the returned list reports that row.
C2_ListRelocates ==
    [][ListRead =>
         \A h \in DOMAIN highlights :
             LET content == files[resp'.path]
                 span == findTextOffset(content, highlights[h].highlighted_text, 0)
             IN  (/\ OfListed(h)
                  /\ ~highlights[h].is_stale
                  /\ highlights[h].content_hash # computeFileHash(content)
                  /\ span.found)
                 => /\ h \in DOMAIN highlights'
                    /\ highlights'[h].start_offset = span.startOffset
                    /\ highlights'[h].end_offset = span.endOffset
                    /\ highlights'[h].content_hash = computeFileHash(content)
                    /\ ~highlights'[h].is_stale
                    /\ \E k \in 1..Len(resp'.list) :
                           resp'.list[k] = HighlightView(highlights', h)]_vars

\* C3: in every step a stored (start, end) changes only to the span the locator
\* returns for the highlight's text on the content a list read just read, and a list
\* read that does not find the text leaves the stored start, end and hash as they were.
C3_NeverInventsOffsets ==
    [][\A h \in DOMAIN highlights :
           /\ (/\ h \in DOMAIN highlights'
               /\ \/ highlights'[h].start_offset # highlights[h].start_offset
                  \/ highlights'[h].end_offset # highlights[h].end_offset)
              => /\ ListRead
                 /\ OfListed(h)
                 /\ LET span == findTextOffset(files[resp'.path],
                                               highlights[h].highlighted_text, 0)
                    IN  /\ span.found
                        /\ highlights'[h].start_offset = span.startOffset
                        /\ highlights'[h].end_offset = span.endOffset
           /\ (/\ ListRead
               /\ OfListed(h)
               /\ highlights[h].content_hash # computeFileHash(files[resp'.path])
               /\ ~Located(files[resp'.path], highlights[h].highlighted_text))
              => (h \in DOMAIN highlights' /\ SameSpan(h))]_vars

\* C4 as stated: every highlight created on content C is returned by a list read of
\* C with isStale = false and the offsets stored at creation.
C4_RoundTripAny ==
    [][ListRead =>
         \A h \in DOMAIN highlights :
             (OfListed(h) /\ highlights[h].content_hash = computeFileHash(files[resp'.path]))
             => \E k \in 1..Len(resp'.list) :
                    /\ resp'.list[k].id = h
                    /\ ~resp'.list[k].isStale
                    /\ resp'.list[k].startOffset = highlights[h].start_offset
                    /\ resp'.list[k].endOffset = highlights[h].end_offset]_vars

\* C4 amended: every highlight created on content C that the create response
\* reported as not stale is returned by a list read of C with isStale = false and
\* the offsets stored at creation.
C4_RoundTripNotStale ==
    [][ListRead =>
         \A h \in DOMAIN highlights :
             (/\ OfListed(h)
              /\ ~highlights[h].is_stale
              /\ highlights[h].content_hash = computeFileHash(files[resp'.path]))
             => \E k \in 1..Len(resp'.list) :
                    /\ resp'.list[k].id = h
                    /\ ~resp'.list[k].isStale
                    /\ resp'.list[k].startOffset = highlights[h].start_offset
                    /\ resp'.list[k].endOffset = highlights[h].end_offset]_vars

\* a list read of unchanged content has returned a highlight that is not stale
C4_Witness ==
    /\ resp.op = "list" /\ resp.status = 200 /\ resp.path \in DOMAIN files
    /\ \E k \in 1..Len(resp.list) :
           /\ ~resp.list[k].isStale
           /\ resp.list[k].contentHash = computeFileHash(files[resp.path])
           /\ resp.list[k].startOffset > 0

\* C10: a list read whose file cannot be read answers 200, changes no start, end
\* or hash, and leaves no highlight of the resource with stale = false.
C10_UnreadableList ==
    [][(/\ resp'.op = "list"
        /\ getResourceByPath(resp'.path) # 0
        /\ resp'.path \notin DOMAIN files)
       => /\ resp'.status = 200
          /\ \A h \in DOMAIN highlights \cap DOMAIN highlights' : SameSpan(h)
          /\ \A h \in DOMAIN highlights' :
                 highlights'[h].resource_id = getResourceByPath(resp'.path)
                     => highlights'[h].is_stale]_vars

\* a list read has answered for a resource that got a highlight and whose file is gone
C10_Witness ==
    /\ resp.op = "list" /\ resp.status = 200 /\ resp.path \notin DOMAIN files
    /\ resources[resp.id].backup_path # Null

----------------------------------------------------------------------------
(* Properties of backup and restore *)

\* the files of the cache directory named for resource resourceId
BackupFilesOf(fs, resourceId) ==
    {p \in DOMAIN fs : /\ dirname(p) = CacheDir
                       /\ MatchAt(basename(p), Decimal(resourceId) \o <<"_">>, 0)}

CreatedOk == resp'.op = "create" /\ resp'.status = 201

\* C5: over creates one at a time interleaved with file edits and highlight
\* deletions, a backup is taken only by the first successful create (the one that
\* finds backupPath null), backupPath once non-null never changes, and the resource
\* then has exactly one backup file, the one backupPath names.
C5_BackupOnce ==
    [][/\ \A r \in DOMAIN resources :
              resources[r].backup_path # Null
                  => /\ r \in DOMAIN resources'
                     /\ resources'[r].backup_path = resources[r].backup_path
                     /\ BackupFilesOf(files', r) = {resources[r].backup_path}
       /\ \A r \in DOMAIN resources' :
              BackupFilesOf(files', r) # BackupFilesOf(files, r)
                  => /\ CreatedOk
                     /\ r = getResourceByPath(resp'.path)
                     /\ resources[r].backup_path = Null
                     /\ BackupFilesOf(files', r) = {resources'[r].backup_path}
       /\ CreatedOk => resources'[getResourceByPath(resp'.path)].backup_path # Null]_vars

\* a resource has two highlights created at different times and one backup file
C5_Witness ==
    \E h1, h2 \in DOMAIN highlights :
        /\ highlights[h1].resource_id = highlights[h2].resource_id
        /\ highlights[h1].created_at < highlights[h2].created_at
        /\ Cardinality(BackupFilesOf(files, highlights[h1].resource_id)) = 1

\* C6: a successful restore without useTimestamp returns the original path and
\* leaves the original file equal to the backup; with useTimestamp it returns another
\* path whose file equals the backup and leaves the original file as it was; the
\* backup file is unchanged either way.
C6_RestoreSemantics ==
    [][(resp'.op = "restore" /\ resp'.status = 200) =>
         LET res == resources[highlights[resp'.id].resource_id]
             bak == res.backup_path
             target == resp'.restoredPath
         IN  /\ bak \in DOMAIN files' /\ files'[bak] = files[bak]
             /\ target \in DOMAIN files' /\ files'[target] = files[bak]
             /\ IF resp'.useTimestamp
                  THEN /\ target # res.path
                       /\ (res.path \in DOMAIN files) = (res.path \in DOMAIN files')
                       /\ res.path \in DOMAIN files => files'[res.path] = files[res.path]
                  ELSE target = res.path]_vars

\* a timestamped restore has produced a file that differs from the edited original
C6_Witness ==
    /\ resp.op = "restore" /\ resp.status = 200 /\ resp.useTimestamp
    /\ resp.path \in DOMAIN files
    /\ resp.restoredPath \in DOMAIN files
    /\ files[resp.path] # files[resp.restoredPath]

\* C7: a restore for a resource whose backup_path is set while the backup file is
\* missing answers 404 and leaves the files and the resources table unchanged.
C7_MissingBackupIs404 ==
    [][(/\ resp'.op = "restore"
        /\ resp'.id \in DOMAIN highlights
        /\ LET res == resources[highlights[resp'.id].resource_id]
           IN  res.backup_path # Null /\ res.backup_path \notin DOMAIN files)
       => /\ resp'.status = 404
          /\ files' = files
          /\ resources' = resources]_vars

----------------------------------------------------------------------------
(* Properties of the database *)

\* C8: every highlight's resource_id is the id of an existing resource, in every
\* state, across resource deletion by clearDatabase and by orphan removal.
C8_ReferentialIntegrity ==
    \A h \in DOMAIN highlights : highlights[h].resource_id \in DOMAIN resources

\* resources were deleted after a highlight had been created, and none is left
C8_Witness ==
    /\ resp.op \in {"clearDatabase", "cleanup"}
    /\ listArchiveFiles(files) # {}
    /\ highlights = <<>>

----------------------------------------------------------------------------
(* Properties of the locator *)

\* the offsets at which searchText occurs verbatim in content
ExactPositions(content, searchText) ==
    {i \in 0..(Len(content) - Len(searchText)) : MatchAt(content, searchText, i)}

\* C9: for a needle with at least one exact occurrence, findTextOffset returns the
\* occurrence of index idx for 0 <= idx < count and not-found for every other index,
\* negative ones included.
C9_LocatorIndexing ==
    (/\ call.fn = "findTextOffset"
     /\ ExactPositions(call.content, call.searchText) # {})
    => LET pos == ExactPositions(call.content, call.searchText)
           idx == call.occurrenceIndex
       IN  IF 0 <= idx /\ idx < Cardinality(pos)
             THEN LET at == CHOOSE x \in pos : Cardinality({y \in pos : y < x}) = idx
                  IN  /\ call.result.found
                      /\ call.result.startOffset = at
                      /\ call.result.endOffset = at + Len(call.searchText)
             ELSE ~call.result.found

----------------------------------------------------------------------------
(* Properties of stored offsets and of the create route *)

\* C11: every stored highlight has 0 <= start offset < end offset, in every state
\* reached through creates, list reads, deletes and restores.
C11_OffsetsOrdered ==
    \A h \in DOMAIN highlights :
        /\ 0 <= highlights[h].start_offset
        /\ highlights[h].start_offset < highlights[h].end_offset

\* a create with a negative occurrence index has stored a highlight at offset 0
C11_Witness ==
    /\ resp.op = "create" /\ resp.status = 201 /\ resp.isStale
    /\ resp.id \in DOMAIN highlights
    /\ highlights[resp.id].start_offset = 0
    /\ Slice(files[resp.path], 0, highlights[resp.id].end_offset)
           # highlights[resp.id].highlighted_text

\* highlight h is new in this step, or its offsets or hash were rewritten by it
StoredNow(h) ==
    /\ h \in DOMAIN highlights'
    /\ ~highlights'[h].is_stale
    /\ h \in DOMAIN highlights => ~SameSpan(h)

\* the content a highlight's offsets point into after this step
ContentOf(h) == files'[resources'[highlights'[h].resource_id].path]

\* C12 as stated: a highlight stored or updated as non-stale against content C has
\* C[start:end] equal to its highlighted text.
C12_SliceEqualsText ==
    [][\A h \in DOMAIN highlights' :
           StoredNow(h) =>
               Slice(ContentOf(h), highlights'[h].start_offset, highlights'[h].end_offset)
                   = highlights'[h].highlighted_text]_vars

\* C12 amended: a highlight stored or updated as non-stale against content C has
\* C[start:end] equal to its highlighted text once whitespace runs are collapsed and
\* both are trimmed.
C12_SliceEqualsTextModuloWhitespace ==
    [][\A h \in DOMAIN highlights' :
           StoredNow(h) =>
               normalizeWhitespace(Slice(ContentOf(h), highlights'[h].start_offset,
                                         highlights'[h].end_offset))
                   = normalizeWhitespace(highlights'[h].highlighted_text)]_vars

\* a non-stale highlight is stored at the second occurrence of its text
C12_Witness ==
    /\ resp.op = "create" /\ resp.status = 201 /\ ~resp.isStale
    /\ resp.id \in DOMAIN highlights
    /\ highlights[resp.id].start_offset = 2
    /\ Len(files[resp.path]) = 3

\* C14: a successful create answers {id, isStale} with isStale true exactly when the
\* text at the located offsets differs from the requested text after whitespace runs
\* are collapsed and both are trimmed, and the row stored under id has that flag.
C14_CreateStaleFlag ==
    [][CreatedOk =>
         LET row == highlights'[resp'.id]
             extractedText == Slice(files[resp'.path], row.start_offset, row.end_offset)
         IN  /\ resp'.id \notin DOMAIN highlights
             /\ resp'.isStale = (normalizeWhitespace(extractedText)
                                    # normalizeWhitespace(row.highlighted_text))
             /\ row.is_stale = resp'.isStale]_vars

\* a create has answered isStale = false for a text that differs from the file's
\* in whitespace only
C14_Witness ==
    /\ resp.op = "create" /\ resp.status = 201 /\ ~resp.isStale
    /\ resp.id \in DOMAIN highlights
    /\ resp.path \in DOMAIN files
    /\ Slice(files[resp.path], highlights[resp.id].start_offset,
             highlights[resp.id].end_offset) # highlights[resp.id].highlighted_text

----------------------------------------------------------------------------
(* Properties of what a list read returns *)

C15_ListOrdered ==
    [][ListRead =>
         \A i, j \in 1..Len(resp'.list) :
             i < j => resp'.list[i].startOffset <= resp'.list[j].startOffset]_vars

\* a list read has returned the later created highlight first
C15_Witness ==
    /\ resp.op = "list" /\ resp.status = 200
    /\ Len(resp.list) = 2
    /\ resp.list[1].id > resp.list[2].id
    /\ resp.list[1].startOffset < resp.list[2].startOffset

\* the file changed since highlight h was stored and its text occurs more than once
Ambiguous(h) ==
    /\ OfListed(h)
    /\ highlights[h].content_hash # computeFileHash(files[resp'.path])
    /\ Cardinality(ExactPositions(files[resp'.path], highlights[h].highlighted_text)) > 1

C20_FreshIsNoOp ==
    [][ListRead =>
         \A h \in DOMAIN highlights :
             (OfListed(h) /\ highlights[h].content_hash = computeFileHash(files[resp'.path]))
             => /\ validateHighlight(files[resp'.path], highlights[h].content_hash,
                                     highlights[h].highlighted_text)
                    = [isValid |-> TRUE, moved |-> FALSE, newStartOffset |-> 0,
                       newEndOffset |-> 0, newContentHash |-> Null]
                /\ h \in DOMAIN highlights'
                /\ highlights'[h] = highlights[h]]_vars

\* a list read of unchanged content has returned a highlight that was stored stale
\* some time before
C20_Witness ==
    /\ resp.op = "list" /\ resp.status = 200 /\ resp.path \in DOMAIN files
    /\ \E k \in 1..Len(resp.list) :
           /\ resp.list[k].isStale
           /\ resp.list[k].contentHash = computeFileHash(files[resp.path])
           /\ resp.list[k].updatedAt < now

----------------------------------------------------------------------------
(* Properties of the directory listing and of timestamped restores *)

\* does path start with prefix, character for character
StartsWith(path, prefix) == Len(path) >= Len(prefix) /\ SubSeq(path, 1, Len(prefix)) = prefix

DirectoryRead == resp'.op = "directory" /\ resp'.status = 200

\* C16: getHighlightsByDirectory(prefix) returns exactly the highlights whose resource
\* path starts with the prefix character for character (case-sensitively, % and _
\* taken literally), and directoryHasHighlights(prefix) is true exactly when that
\* result is not empty.
C16_PrefixIsLiteral ==
    [][DirectoryRead =>
         /\ {resp'.list[k].id : k \in 1..Len(resp'.list)}
                = {h \in DOMAIN highlights :
                       StartsWith(resources[highlights[h].resource_id].path, resp'.path)}
         /\ directoryHasHighlights(highlights, resources, resp'.path)
                = (Len(resp'.list) > 0)]_vars

\* C17: a directory listing leaves every highlight row, resource row and file as it
\* was and returns the stored records, offsets, hash and stale flag as stored, ordered
\* by created-at descending.
C17_DirectoryListsAsStored ==
    [][DirectoryRead =>
         /\ highlights' = highlights
         /\ resources' = resources
         /\ files' = files
         /\ \A k \in 1..Len(resp'.list) :
                LET item == resp'.list[k]
                IN  /\ item.id \in DOMAIN highlights
                    /\ item.startOffset = highlights[item.id].start_offset
                    /\ item.endOffset = highlights[item.id].end_offset
                    /\ item.contentHash = highlights[item.id].content_hash
                    /\ item.isStale = highlights[item.id].is_stale
                    /\ item.highlightedText = highlights[item.id].highlighted_text
         /\ \A i, j \in 1..Len(resp'.list) :
                i < j => resp'.list[i].createdAt >= resp'.list[j].createdAt]_vars

\* a directory listing has returned two highlights, the newer first, one of them
\* stored against content the file no longer has
C17_Witness ==
    /\ resp.op = "directory" /\ resp.status = 200
    /\ Len(resp.list) = 2
    /\ resp.list[1].createdAt > resp.list[2].createdAt
    /\ \E k \in 1..2 :
           /\ resp.list[k].resourcePath \in DOMAIN files
           /\ resp.list[k].contentHash # computeFileHash(files[resp.list[k].resourcePath])

\* C18: a restore with useTimestamp = true succeeds for every highlight whose resource
\* has an existing backup file, however often it was restored before, and then exactly
\* one resource row has the returned path.
C18_TimestampRestoreRepeats ==
    [][(/\ resp'.op = "restore"
        /\ resp'.useTimestamp
        /\ resp'.id \in DOMAIN highlights
        /\ LET res == resources[highlights[resp'.id].resource_id]
           IN  res.backup_path # Null /\ res.backup_path \in DOMAIN files)
       => /\ resp'.status = 200
          /\ Cardinality({r \in DOMAIN resources' :
                              resources'[r].path = resp'.restoredPath}) = 1]_vars

----
(* Claims C21..C30                                                              *)

\* C21: when findTextOffset finds no exact occurrence and matches through the
\* whitespace-normalized fallback, the returned start is a position of the normalized
\* needle in the normalized content and end - start is the normalized needle's length.
C21_FallbackLengthNormalized ==
    (/\ call.fn = "findTextOffset"
     /\ call.result.found
     /\ ExactPositions(call.content, call.searchText) = {})
    => /\ MatchAt(normalizeWhitespace(call.content), normalizeWhitespace(call.searchText),
                  call.result.startOffset)
       /\ call.result.endOffset - call.result.startOffset
              = Len(normalizeWhitespace(call.searchText))

\* C25: an event passed to recordEvent while the scan runs is not written at once,
\* and when the scan ends, either way, every queued event is written exactly once in
\* the order of submission.
C25_QueuedEventsWritten ==
    [][/\ (isScanning /\ eventQueue' # eventQueue /\ isScanning') => events' = events
       /\ (isScanning /\ ~isScanning')
          => /\ Len(events') = Len(events) + Len(eventQueue)
             /\ \A i \in 1..Len(events) : events'[i] = events[i]
             /\ \A i \in 1..Len(eventQueue) :
                    LET e == events'[Len(events) + i]
                    IN  /\ e.type = eventQueue[i].type
                        /\ e.resource_id \in DOMAIN resources'
                        /\ resources'[e.resource_id].path = eventQueue[i].path]_vars

\* C26: in every reachable state a resource whose backup_path is set has a backup
\* file at that path.
C26_BackupPathHasFile ==
    \A r \in DOMAIN resources :
        resources[r].backup_path # Null => resources[r].backup_path \in DOMAIN files

\* C29: cleanupOldEvents leaves every highlight row in place.
C29_CleanupKeepsHighlights ==
    [][resp'.op = "cleanup" => highlights' = highlights]_vars

\* the candidates of the whitespace-normalized search
FallbackPositions(content, searchText) ==
    ExactPositions(normalizeWhitespace(content), normalizeWhitespace(searchText))

\* C22: when a listing reconciles a changed file and a highlight's text has no exact
\* occurrence while the normalized search yields several candidates, validateHighlight
\* reports the highlight invalid.
C22_SeveralCandidatesInvalid ==
    [][ListRead =>
         \A h \in {x \in DOMAIN highlights : OfListed(x)} :
             LET row == highlights[h]
                 content == files[resp'.path]
             IN  (/\ row.content_hash # computeFileHash(content)
                  /\ ExactPositions(content, row.highlighted_text) = {}
                  /\ Cardinality(FallbackPositions(content, row.highlighted_text)) > 1)
                 => ~validateHighlight(content, row.content_hash,
                                       row.highlighted_text).isValid]_vars

\* C23: a create request that fails answers 400, 404 or 500 and leaves the highlights
\* table, every resource row and every file, backups included, as they were.
C23_FailedCreateChangesNothing ==
    [][(resp'.op = "create" /\ resp'.status # 201)
       => /\ resp'.status \in {400, 404, 500}
          /\ highlights' = highlights
          /\ resources' = resources
          /\ files' = files]_vars

\* a create for a text that is not in the readable file of a resource without a
\* backup has been answered 400
C23_Witness ==
    /\ resp.op = "create" /\ resp.status = 400
    /\ resp.path \in DOMAIN files
    /\ getResourceByPath(resp.path) # 0
    /\ resources[getResourceByPath(resp.path)].backup_path = Null
    /\ listArchiveFiles(files) = {}

C27_ConcurrentBackupOnce ==
    [][\A r \in DOMAIN resources :
           resources[r].backup_path # Null
           => /\ r \in DOMAIN resources'
              /\ resources'[r].backup_path = resources[r].backup_path
              /\ BackupFilesOf(files', r) = BackupFilesOf(files, r)
              /\ \A p \in BackupFilesOf(files, r) : files'[p] = files[p]]_vars

\* C28: the content_hash written with a resource's first backup is the hash of the
\* content of the backup file, whatever was written to the document while the
\* request was suspended.
C28_HashOfBackup ==
    [][\A r \in DOMAIN resources \cap DOMAIN resources' :
           (resources[r].backup_path = Null /\ resources'[r].backup_path # Null)
           => resources'[r].content_hash
                  = computeFileHash(files'[resources'[r].backup_path])]_vars

\* C30: a client that has disconnected is a subscriber of no watched file, and a
\* file without subscribers has no watcher and no pending debounce timer, whatever
\* watch messages the client sent.
C30_ClosedClientUnsubscribed ==
    /\ \A ws \in DOMAIN wsFile :
           ~wsFile[ws].open => \A f \in DOMAIN watchedFiles : ws \notin watchedFiles[f]
    /\ \A f \in DOMAIN watchedFiles : watchedFiles[f] # {}
    /\ debounceTimers \subseteq DOMAIN watchedFiles

====
